---- MODULE Spec2Model ----
(***************************************************************************)
(* A model of the BLE scanner application (ble_adv_scanner.py, the         *)
(* pull-iterator variant, and ble_basic_scanner.py, the push-callback      *)
(* variant): the scan session threads, the signal queue into the GUI       *)
(* thread, and the device map / device table the GUI thread maintains.     *)
(***************************************************************************)
EXTENDS Integers, Sequences, FiniteSets, TLC

(***************************************************************************)
(* Bounds of the model.                                                    *)
(***************************************************************************)
\* Device addresses are 1..MaxAddr; their numeric order stands for the
\* lexicographic order of the address strings.
MaxAddr == 2
\* Total number of advertisements the host stack delivers in one run.
MaxAdv == 2
\* Number of BLEScannerThread objects the application creates in one run.
MaxSessions == 2
\* Wall-clock readings ("%H:%M:%S" strings) are 0..MaxTime.
MaxTime == 1

Addresses == 1..MaxAddr
Times == 0..MaxTime

(***************************************************************************)
(* State.                                                                  *)
(***************************************************************************)
VARIABLES
  variant,         \* "pull": ble_adv_scanner.py, "push": ble_basic_scanner.py
  threads,         \* the BLEScannerThread objects created so far, with their workers
  scanner_thread,  \* BLEScannerApp.scanner_thread: an index of threads, 0 for None
  timer_pending,   \* QTimer.singleShot(100, self.start_scanning) has not fired yet
  gui,             \* what the GUI thread is doing
  queue,           \* signals emitted by the session threads, queued to the GUI thread
  devices,         \* BLEScannerApp.devices
  rows,            \* the rows of BLEScannerApp.table
  sortCol,         \* the table header's sort indicator section
  sortOrder,       \* the table header's sort indicator order
  advCount,        \* advertisements delivered so far
  emitted,         \* per session, the number of signals of each kind emitted
  lastOp,          \* the last operation the GUI thread ran
  details          \* the hex dumps in the manufacturer and service data panels

vars == <<variant, threads, scanner_thread, timer_pending, gui, queue, devices,
          rows, sortCol, sortOrder, advCount, emitted, lastOp, details>>

tableVars == <<devices, rows>>
sortVars == <<sortCol, sortOrder>>
sessionVars == <<threads, scanner_thread, timer_pending, advCount, emitted>>

(***************************************************************************)
(* The table columns the model carries: 0 Address, 5 RSSI, 6 Last Seen.    *)
(* Columns 1..4 (name, manufacturer, service UUIDs, service data) are      *)
(* written by add_device between column 0 and column 5 with the same       *)
(* setItem call and are not read by any operation of the model.            *)
(***************************************************************************)
ColAddress == 0
ColRssi == 5
ColLastSeen == 6
Cols == {ColAddress, ColRssi, ColLastSeen}

\* The rssi value the decoder stores when no reading is present.
RssiUnknown == -999
\* The floor the decoder applies to a numeric reading: max(rssi, -99).
RssiFloor == -99

\* A table cell is <<>> (no item: QTableWidget.item() returns None) or <<v>>.
Null == <<>>
EmptyRow == [c \in Cols |-> Null]

(***************************************************************************)
(* Strings, as sequences of character codes, for the RSSI column: its      *)
(* DisplayRole is str(rssi) or 'N/A', and QTableWidgetItem compares the    *)
(* DisplayRole values, which are strings.                                  *)
(***************************************************************************)
RECURSIVE DigitsOf(_)
DigitsOf(n) ==
  IF n < 10 THEN <<48 + n>> ELSE Append(DigitsOf(n \div 10), 48 + (n % 10))

\* Python's str() of an integer.
StrOfInt(n) == IF n < 0 THEN <<45>> \o DigitsOf(0 - n) ELSE DigitsOf(n)

\* The RSSI item's DisplayRole text.
RssiDisplay(rssi) == IF rssi # RssiUnknown THEN StrOfInt(rssi) ELSE <<78, 47, 65>>

RECURSIVE StrLess(_, _)
StrLess(s, t) ==
  IF t = <<>> THEN FALSE
  ELSE IF s = <<>> THEN TRUE
  ELSE IF Head(s) # Head(t) THEN Head(s) < Head(t)
  ELSE StrLess(Tail(s), Tail(t))

\* QTableWidgetItem.__lt__ on the items of column c, whose values are a and b.
ItemLess(c, a, b) ==
  IF c = ColRssi THEN StrLess(RssiDisplay(a), RssiDisplay(b)) ELSE a < b

\* The comparator of the table's sort order: elem sorts before item.
SortsBefore(order, c, elem, item) ==
  IF order = "asc" THEN ItemLess(c, elem, item) ELSE ItemLess(c, item, elem)

(***************************************************************************)
(* QTableWidget with sorting enabled.                                      *)
(***************************************************************************)
RemoveAt(s, i) == SubSeq(s, 1, i - 1) \o SubSeq(s, i + 1, Len(s))
InsertAt(s, i, x) == SubSeq(s, 1, i - 1) \o <<x>> \o SubSeq(s, i, Len(s))

\* Number of leading rws that have an item in column c (the sortable items).
ColumnItems(rws, c) ==
  Cardinality({j \in 1..Len(rws) : \A i \in 1..j : rws[i][c] # Null})

\* table.setItem(r, c, item) with item's value v, rws numbered from 1: the
\* cell is replaced and, when c is the sort column, the row moves to the
\* sorted position of the item among the other sortable items of the column.
SetItem(rws, r, c, v, sCol, sOrder) ==
  LET set == [rws EXCEPT ![r][c] = <<v>>]
      n == ColumnItems(set, c)
      others == {j \in 1..n : j # r}
      sortedRow == Cardinality({j \in others :
                      SortsBefore(sOrder, c, set[j][c][1], v)}) + 1
  IN IF c # sCol \/ sortedRow = r THEN set
     ELSE InsertAt(RemoveAt(set, r), sortedRow, set[r])

\* table.insertRow(r): a row without items at position r.
InsertRow(rws, r) == InsertAt(rws, r, EmptyRow)

\* The stable sort the table does when its sort indicator changes: the rws
\* with an item in column c in sort order, the rws without one after them.
RECURSIVE StableSort(_, _, _)
StableSort(rws, c, order) ==
  IF rws = <<>> THEN <<>>
  ELSE LET init == StableSort(SubSeq(rws, 1, Len(rws) - 1), c, order)
           x == rws[Len(rws)]
           pos == Cardinality({j \in 1..Len(init) :
                     ~SortsBefore(order, c, x[c][1], init[j][c][1])}) + 1
       IN InsertAt(init, pos, x)

SelectRows(rws, c, wantItem) ==
  SelectSeq(rws, LAMBDA row : (row[c] # Null) = wantItem)

SortByColumn(rws, c, order) ==
  StableSort(SelectRows(rws, c, TRUE), c, order) \o SelectRows(rws, c, FALSE)


(***************************************************************************)
(* The decoder: process_device / detection_callback.                       *)
(***************************************************************************)
\* Strings are sequences of character codes. str.startswith, str.endswith,
\* str.split on one separator character, str.join and str.upper.
StartsWith(s, p) == Len(s) >= Len(p) /\ SubSeq(s, 1, Len(p)) = p
EndsWith(s, p) == Len(s) >= Len(p) /\ SubSeq(s, Len(s) - Len(p) + 1, Len(s)) = p

RECURSIVE Split(_, _)
Split(s, sep) ==
  LET hits == {k \in 1..Len(s) : s[k] = sep} IN
  IF hits = {} THEN <<s>>
  ELSE LET k == CHOOSE h \in hits : \A g \in hits : h <= g
       IN <<SubSeq(s, 1, k - 1)>> \o Split(SubSeq(s, k + 1, Len(s)), sep)

RECURSIVE Join(_, _)
Join(parts, sep) ==
  IF parts = <<>> THEN <<>>
  ELSE IF Len(parts) = 1 THEN parts[1]
  ELSE parts[1] \o sep \o Join(Tail(parts), sep)

UpperChar(c) == IF c >= 97 /\ c <= 122 THEN c - 32 ELSE c
Upper(s) == [k \in 1..Len(s) |-> UpperChar(s[k])]

\* '-0000-1000-8000-00805f9b34fb', the literal the decoder compares with.
SigBaseSuffix == <<45, 48, 48, 48, 48, 45, 49, 48, 48, 48, 45, 56, 48, 48, 48, 45, 48, 48, 56, 48, 53, 102, 57, 98, 51, 52, 102, 98>>

\* The body of the decoder's loop over the UUIDs: a 36-character string that
\* ends with the literal, splits at '-' into five parts and whose first part
\* starts with '0000' becomes parts[0][4:]; any other string is kept.
ConvertUuid(uuid) ==
  IF Len(uuid) = 36 /\ EndsWith(uuid, SigBaseSuffix)
    THEN LET parts == Split(uuid, 45)
         IN IF Len(parts) = 5 /\ StartsWith(parts[1], <<48, 48, 48, 48>>)
              THEN SubSeq(parts[1], 5, Len(parts[1]))
              ELSE uuid
    ELSE uuid

\* The lowercase hex digit of d in 0..15, and bytes.hex().
HexDigit(d) == IF d < 10 THEN 48 + d ELSE 87 + d

RECURSIVE BytesHex(_)
BytesHex(data) ==
  IF data = <<>> THEN <<>>
  ELSE <<HexDigit(Head(data) \div 16), HexDigit(Head(data) % 16)>> \o BytesHex(Tail(data))

\* data.hex().upper()
HexData(data) == Upper(BytesHex(data))

\* format(n, 'X') and f"0x{n:04X}".
RECURSIVE FormatX(_)
FormatX(n) ==
  IF n < 16 THEN Upper(<<HexDigit(n)>>)
  ELSE FormatX(n \div 16) \o Upper(<<HexDigit(n % 16)>>)

RECURSIVE ZeroPad(_, _)
ZeroPad(s, width) == IF Len(s) >= width THEN s ELSE ZeroPad(<<48>> \o s, width)

Format0x04X(n) == <<48, 120>> \o ZeroPad(FormatX(n), 4)

\* Numeric RSSI readings the host stack reports in this model.
RssiReadings == {-60, -70, -120}

\* advertisement_data.rssi: a number, an attribute that is missing (getattr
\* then yields 'N/A'), or None.
RssiInputs ==
  {[kind |-> "int", val |-> v] : v \in RssiReadings}
    \cup {[kind |-> "missing", val |-> 0], [kind |-> "none", val |-> 0]}

\* One raw advertisement event: manufacturer_data and service_data are dicts,
\* here the sequences of their entries in insertion order; service_uuids is
\* a list of strings. In Spec the advertisements carry an address and an
\* RSSI reading and none of the three.
Advertisements ==
  [address : Addresses, rssi : RssiInputs, manufacturer_data : {<<>>},
   service_uuids : {<<>>}, service_data : {<<>>}]
NoAdv ==
  [address |-> 0, rssi |-> [kind |-> "missing", val |-> 0], manufacturer_data |-> <<>>,
   service_uuids |-> <<>>, service_data |-> <<>>]

Max(a, b) == IF a >= b THEN a ELSE b

\* A decoder that stores the reading as reported, without the floor.
DecodeRssiNoFloor(r) == IF r.kind = "missing" THEN RssiUnknown ELSE r.val

\* A decoder that clamps with min instead of max.
DecodeRssiMin(r) ==
  IF r.kind = "missing" THEN RssiUnknown
  ELSE IF r.val <= RssiFloor THEN r.val ELSE RssiFloor

\* rssi = getattr(advertisement_data, 'rssi', 'N/A');
\* if isinstance(rssi, (int, float)): rssi = max(rssi, -99)
\* 'rssi': int(rssi) if rssi != 'N/A' else -999
DecodeRssi(r) ==
  IF r.kind = "missing" THEN RssiUnknown ELSE Max(r.val, RssiFloor)

\* int(None) raises TypeError inside the try block of the decoder.
DecodeRaises(adv) == adv.rssi.kind = "none"

\* get_manufacturer_name of module manufacturer_ids: the registry's name of
\* a company identifier, or the sentinel "Unknown" when it has none.
UnknownName == <<85, 110, 107, 110, 111, 119, 110>>
Registry == [id \in {76} |-> <<65, 112, 112, 108, 101, 44, 32, 73, 110, 99, 46>>]
GetManufacturerName(id) == IF id \in DOMAIN Registry THEN Registry[id] ELSE UnknownName

\* The literal of manufacturer_name.startswith("Unknown").
UnknownPrefix == <<85, 110, 107, 110, 111, 119, 110>>

\* A decoder that shows what the registry returned, without the fallback.
ManufacturerNameNoFallback(md) ==
  IF md = <<>> THEN <<>> ELSE GetManufacturerName(md[1].id)

\* manufacturer_name: '' without manufacturer data, else the registry name of
\* the first key, or f"0x{manufacturer_id:04X}" when that name starts with
\* "Unknown".
ManufacturerName(md) ==
  IF md = <<>> THEN <<>>
  ELSE LET name == GetManufacturerName(md[1].id)
       IN IF StartsWith(name, UnknownPrefix) THEN Format0x04X(md[1].id) ELSE name

\* 'manufacturer_id': f"0x{manufacturer_id:04X}" if manufacturer_id else "":
\* manufacturer_id is None without manufacturer data, and the test is false
\* for None and for 0.
ManufacturerIdStr(md) ==
  IF md # <<>> /\ md[1].id # 0 THEN Format0x04X(md[1].id) ELSE <<>>

Range(q) == {q[k] : k \in 1..Len(q)}
ServiceDataKeys(sd) == [k \in 1..Len(sd) |-> sd[k].uuid]
ServiceDataOf(sd, uuid) == sd[CHOOSE k \in 1..Len(sd) : sd[k].uuid = uuid].data

\* list(set(...)): the elements of a set in an order that depends on the
\* string hashes of the run.
Orders(S) == {q \in [1..Cardinality(S) -> S] : Range(q) = S}

\* all_service_uuids. pull: the advertised service_uuids list. push:
\* list(set(service_uuids + service_data_uuids)), in any order.
AllServiceUuids(adv) ==
  IF variant = "pull" THEN {adv.service_uuids}
  ELSE Orders(Range(adv.service_uuids) \cup Range(ServiceDataKeys(adv.service_data)))

\* converted_service_uuids / converted_uuids, and service_uuids_str.
ConvertedUuids(all) == [k \in 1..Len(all) |-> ConvertUuid(all[k])]
ServiceUuidsStr(all) == Join(ConvertedUuids(all), <<10>>)

\* A service_data_str with a line for each service_data entry only.
ServiceDataStrEntriesOnly(adv, all) ==
  Join([k \in 1..Len(adv.service_data) |-> HexData(adv.service_data[k].data)], <<10>>)

\* service_data_str. pull: for each service_data entry the converted UUID,
\* "\ndata: " and the hex of the payload, joined by "\n\n". push: for each
\* of all_service_uuids the hex of its payload or "null", joined by "\n".
ServiceDataStr(adv, all) ==
  LET sd == adv.service_data IN
  IF variant = "pull"
    THEN Join([k \in 1..Len(sd) |->
                 ConvertUuid(sd[k].uuid) \o <<10, 100, 97, 116, 97, 58, 32>> \o HexData(sd[k].data)],
              <<10, 10>>)
    ELSE Join([k \in 1..Len(all) |->
                 IF all[k] \in Range(ServiceDataKeys(sd))
                   THEN HexData(ServiceDataOf(sd, all[k])) ELSE <<110, 117, 108, 108>>],
              <<10>>)

\* enhanced_service_data, a dict: here a function whose values are <<hex>>
\* or Null for None. pull: one entry per service_data entry, keyed by the
\* converted UUID (a later entry with the same key replaces an earlier one).
\* push: one entry per element of all_service_uuids, keyed by the UUID as
\* advertised, None when service_data has no payload for it.
EnhancedServiceData(adv, all) ==
  LET sd == adv.service_data IN
  IF variant = "pull"
    THEN [d \in {ConvertUuid(sd[k].uuid) : k \in 1..Len(sd)} |->
            LET hits == {k \in 1..Len(sd) : ConvertUuid(sd[k].uuid) = d}
                last == CHOOSE k \in hits : \A h \in hits : h <= k
            IN <<HexData(sd[last].data)>>]
    ELSE [u \in Range(all) |->
            IF u \in Range(ServiceDataKeys(sd))
              THEN <<HexData(ServiceDataOf(sd, u))>> ELSE Null]

\* The device_info dictionary the decoder emits; t is the wall-clock reading
\* datetime.now().strftime("%H:%M:%S"), all is all_service_uuids.
DeviceInfo(adv, t, all) ==
  [address |-> adv.address,
   manufacturer |-> ManufacturerName(adv.manufacturer_data),
   manufacturer_id |-> ManufacturerIdStr(adv.manufacturer_data),
   service_uuids |-> ServiceUuidsStr(all),
   service_data |-> ServiceDataStr(adv, all),
   rssi |-> DecodeRssi(adv.rssi),
   last_seen |-> t,
   raw_manufacturer_data |-> adv.manufacturer_data,
   raw_service_data |-> EnhancedServiceData(adv, all)]

NoInfo ==
  [address |-> 0, manufacturer |-> <<>>, manufacturer_id |-> <<>>, service_uuids |-> <<>>,
   service_data |-> <<>>, rssi |-> 0, last_seen |-> 0, raw_manufacturer_data |-> <<>>,
   raw_service_data |-> <<>>]

\* The device_info dictionaries the decoder can emit for adv at time t.
DeviceInfosOf(adv, t) == {DeviceInfo(adv, t, all) : all \in AllServiceUuids(adv)}

\* Every device_info the decoder can emit in Spec.
DeviceInfos ==
  UNION {DeviceInfosOf(adv, t) : adv \in {a \in Advertisements : ~DecodeRaises(a)}, t \in Times}

(***************************************************************************)
(* The device map and table operations of BLEScannerApp, as functions of   *)
(* the table state.                                                        *)
(***************************************************************************)
\* self.devices[address] = device_info
PutDevice(devs, info) ==
  [a \in DOMAIN devs \cup {info.address} |->
     IF a = info.address THEN info ELSE devs[a]]

\* A search loop that never matches: every device_info gets a new row.
ExistingRowNeverFound(rws, address) == 0

\* The loop that finds the first row whose column 0 item has the address;
\* 0 stands for existing_row = None.
ExistingRow(rws, address) ==
  LET hits == {r \in 1..Len(rws) :
                 rws[r][ColAddress] # Null /\ rws[r][ColAddress][1] = address}
  IN IF hits = {} THEN 0 ELSE CHOOSE r \in hits : \A q \in hits : r <= q

\* The row index add_device writes to, and the table after insertRow.
TargetRow(rws, address) ==
  IF ExistingRow(rws, address) = 0 THEN Len(rws) + 1 ELSE ExistingRow(rws, address)

WithTargetRow(rws, address) ==
  IF ExistingRow(rws, address) = 0 THEN InsertRow(rws, Len(rws) + 1) ELSE rws

\* The setItem calls of add_device, in order, all on the same row index.
AddDeviceRows(rws, info, sCol, sOrder) ==
  LET row == TargetRow(rws, info.address)
      t0 == WithTargetRow(rws, info.address)
      t1 == SetItem(t0, row, ColAddress, info.address, sCol, sOrder)
      t2 == SetItem(t1, row, ColRssi, info.rssi, sCol, sOrder)
      t3 == SetItem(t2, row, ColLastSeen, info.last_seen, sCol, sOrder)
  IN t3

\* clear_results without table.setRowCount(0).
RowsNotCleared == rows

\* self.devices.clear(); self.table.setRowCount(0); the details panels are
\* cleared as well.
ClearedDevices == [a \in {} |-> NoInfo]
ClearedRows == <<>>


(***************************************************************************)
(* The application's state at construction, and its operations.            *)
(***************************************************************************)
\* BLEScannerWorker.__init__: is_scanning = False, scanner = None; the thread
\* has been started and has not run a statement of run() yet.
NewThread ==
  [pc |-> "start", is_scanning |-> FALSE, scanner |-> "none", cur |-> NoAdv,
   stop_raised |-> FALSE]
NoSignals == [scan_started |-> 0, device_found |-> 0, error_occurred |-> 0, scan_stopped |-> 0]

\* The details panels before any row has been selected: no text.
NoDetails == [manufacturer |-> <<>>, service_data |-> <<>>]

\* BLEScannerApp.__init__ and init_ui: no thread, no devices, an empty table
\* with sorting enabled (the header's initial sort indicator is section 0,
\* descending), the auto-start timer armed.
Init ==
  /\ variant \in {"pull", "push"}
  /\ threads = <<>>
  /\ scanner_thread = 0
  /\ timer_pending = TRUE
  /\ gui = "idle"
  /\ queue = <<>>
  /\ devices = ClearedDevices
  /\ rows = <<>>
  /\ sortCol = ColAddress
  /\ sortOrder = "desc"
  /\ advCount = 0
  /\ emitted = <<>>
  /\ lastOp = "init"
  /\ details = NoDetails

\* QThread.isRunning(): from start() until run() has returned.
IsRunning(i) == threads[i].pc # "done"

Signal(sig, i, info) == [sig |-> sig, sess |-> i, info |-> info]

\* A connection that delivers the latest signal first.
EmitAtFront(sig, i, info) ==
  /\ queue' = <<Signal(sig, i, info)>> \o queue
  /\ emitted' = [emitted EXCEPT ![i][sig] = @ + 1]

\* A signal emitted in the session thread is queued to the GUI thread.
Emit(sig, i, info) ==
  /\ queue' = Append(queue, Signal(sig, i, info))
  /\ emitted' = [emitted EXCEPT ![i][sig] = @ + 1]

(***************************************************************************)
(* The GUI thread: BLEScannerApp.                                          *)
(***************************************************************************)
\* start_scanning: a new BLEScannerThread replaces self.scanner_thread and is
\* started. There is no check of the thread it replaces: when that thread is
\* still running, its object either stays alive and the thread keeps running
\* unreferenced, or is destroyed, and destroying a running QThread aborts
\* the process.
StartScanning ==
  /\ Len(threads) < MaxSessions
  /\ threads' = Append(threads, NewThread)
  /\ emitted' = Append(emitted, NoSignals)
  /\ scanner_thread' = Len(threads) + 1
  /\ IF scanner_thread # 0 /\ IsRunning(scanner_thread)
       THEN gui' \in {"idle", "aborted"}
       ELSE gui' = "idle"
  /\ lastOp' = "start_scanning"
  /\ UNCHANGED <<queue, advCount>>

\* stop_scanning: worker.stop_scanning() clears is_scanning, then wait()
\* blocks the GUI thread until the session thread has finished.
StopScanning(waiting, passed) ==
  IF scanner_thread # 0 /\ IsRunning(scanner_thread)
    THEN /\ threads' = [threads EXCEPT ![scanner_thread].is_scanning = FALSE]
         /\ gui' = waiting
         /\ lastOp' = "stop_scanning"
    ELSE /\ threads' = threads
         /\ gui' = passed
         /\ lastOp' = "stop_scanning_idle"

\* The single-shot timer armed by __init__ calls start_scanning.
TimerFires ==
  /\ gui = "idle"
  /\ timer_pending
  /\ timer_pending' = FALSE
  /\ StartScanning
  /\ UNCHANGED <<variant, details, tableVars, sortVars>>

\* toggle_scanning: the scan button.
ToggleScanning ==
  /\ gui = "idle"
  /\ IF scanner_thread = 0 \/ ~IsRunning(scanner_thread)
       THEN StartScanning
       ELSE /\ StopScanning("wait", "idle")
            /\ UNCHANGED <<scanner_thread, emitted, queue, advCount>>
  /\ UNCHANGED <<variant, details, timer_pending, tableVars, sortVars>>

\* QThread.wait() returns once the session thread has finished; closeEvent
\* then accepts the event.
WaitReturns ==
  /\ gui \in {"wait", "close_wait"}
  /\ ~IsRunning(scanner_thread)
  /\ gui' = IF gui = "wait" THEN "idle" ELSE "closed"
  /\ lastOp' = "wait_returned"
  /\ UNCHANGED <<variant, details, sessionVars, queue, tableVars, sortVars>>

\* closeEvent: stop_scanning(), then event.accept().
CloseEvent ==
  /\ gui = "idle"
  /\ StopScanning("close_wait", "closed")
  /\ UNCHANGED <<variant, details, scanner_thread, timer_pending, advCount, emitted, queue,
                 tableVars, sortVars>>

\* add_device, the slot of device_found.
AddDevice ==
  /\ gui = "idle"
  /\ queue # <<>>
  /\ Head(queue).sig = "device_found"
  /\ LET info == Head(queue).info IN
       /\ devices' = PutDevice(devices, info)
       /\ rows' = AddDeviceRows(rows, info, sortCol, sortOrder)
       /\ lastOp' = IF ExistingRow(rows, info.address) = 0
                      THEN "add_device_new" ELSE "add_device_update"
  /\ queue' = Tail(queue)
  /\ UNCHANGED <<variant, details, sessionVars, gui, sortVars>>

\* on_scan_started, on_scan_stopped and on_error, the slots of the other
\* three signals: they change labels and show a dialog; none of them touches
\* the session, the device map or the table.
OnSignal ==
  /\ gui = "idle"
  /\ queue # <<>>
  /\ Head(queue).sig # "device_found"
  /\ queue' = Tail(queue)
  /\ lastOp' = Head(queue).sig
  /\ UNCHANGED <<variant, details, sessionVars, gui, tableVars, sortVars>>

\* clear_results, the clear button.
ClearResults ==
  /\ gui = "idle"
  /\ devices' = ClearedDevices
  /\ rows' = ClearedRows
  /\ details' = NoDetails
  /\ lastOp' = "clear_results"
  /\ UNCHANGED <<variant, sessionVars, gui, queue, sortVars>>

\* An export that empties the device map once it is written.
ExportDropsDevices(devs) == ClearedDevices

\* What export_results leaves in self.devices: json.dump only reads it.
ExportedDevices(devs) == devs

\* export_results, the export button: nothing to export, the file written,
\* or the write failing and the failure shown in a message box.
ExportResults ==
  /\ gui = "idle"
  /\ \E outcome \in IF DOMAIN devices = {} THEN {"export_none"}
                    ELSE {"export_ok", "export_failed"} :
       lastOp' = outcome
  /\ devices' = ExportedDevices(devices)
  /\ UNCHANGED <<variant, details, sessionVars, gui, queue, rows, sortVars>>

\* A click on a header section: the same section flips the order, another
\* section is sorted ascending; the table is sorted by the new indicator.
HeaderClicked ==
  /\ gui = "idle"
  /\ \E c \in Cols :
       /\ sortCol' = c
       /\ sortOrder' = IF c = sortCol /\ sortOrder = "asc" THEN "desc" ELSE "asc"
       /\ rows' = SortByColumn(rows, c, sortOrder')
  /\ lastOp' = "header_clicked"
  /\ UNCHANGED <<variant, details, sessionVars, gui, queue, devices>>

(***************************************************************************)
(* A session thread: BLEScannerThread.run -> BLEScannerWorker.start_scanning*)
(***************************************************************************)
\* The session threads run as long as the process does.
Alive == gui \notin {"aborted", "closed"}

ThreadAt(i, pc) == i \in 1..Len(threads) /\ Alive /\ threads[i].pc = pc

\* The wall clock the decoder reads for last_seen: it advances by one with
\* every advertisement delivered.
Clock == advCount

\* self.is_scanning = True; self.scan_started.emit()
Begin(i) ==
  /\ ThreadAt(i, "start")
  /\ threads' = [threads EXCEPT ![i].is_scanning = TRUE, ![i].pc = "create"]
  /\ Emit("scan_started", i, NoInfo)
  /\ UNCHANGED <<variant, details, scanner_thread, timer_pending, gui, tableVars, sortVars,
                 advCount, lastOp>>

\* The outcomes of creating and starting the scanner. pull: "async with
\* BleakScanner() as scanner" either enters or raises before self.scanner is
\* set. push: BleakScanner(...) may raise before self.scanner is set, and
\* "await scanner.start()" may raise after it is set.
StartOutcomes ==
  IF variant = "pull"
    THEN {[scanner |-> "started", pc |-> "iter"], [scanner |-> "none", pc |-> "except"]}
    ELSE {[scanner |-> "started", pc |-> "poll"], [scanner |-> "none", pc |-> "except"],
          [scanner |-> "created", pc |-> "except"]}

ScannerStart(i) ==
  /\ ThreadAt(i, "create")
  /\ \E o \in StartOutcomes :
       threads' = [threads EXCEPT ![i].scanner = o.scanner, ![i].pc = o.pc]
  /\ UNCHANGED <<variant, details, scanner_thread, timer_pending, gui, queue, tableVars,
                 sortVars, advCount, emitted, lastOp>>

\* pull: "async for device, advertisement_data in scanner.advertisement_data()"
\* yields the next advertisement; "if not self.is_scanning: break".
NextAdvertisement(i) ==
  /\ variant = "pull"
  /\ ThreadAt(i, "iter")
  /\ advCount < MaxAdv
  /\ advCount' = advCount + 1
  /\ \E adv \in Advertisements :
       threads' = IF threads[i].is_scanning
                    THEN [threads EXCEPT ![i].pc = "process", ![i].cur = adv]
                    ELSE [threads EXCEPT ![i].pc = "exit"]
  /\ UNCHANGED <<variant, details, scanner_thread, timer_pending, gui, queue, tableVars,
                 sortVars, emitted, lastOp>>

\* The signal the decoder emits for an advertisement: device_found with the
\* device_info, or, when decoding raises, error_occurred from the except
\* clause of the decoder.
DecodedSignal(adv) == IF DecodeRaises(adv) THEN "error_occurred" ELSE "device_found"
DecodedInfos(adv, t) == IF DecodeRaises(adv) THEN {NoInfo} ELSE DeviceInfosOf(adv, t)

\* A decoder without its try/except: the exception reaches start_scanning.
AfterProcessDeviceUncaught(adv) == IF DecodeRaises(adv) THEN "except" ELSE "iter"

\* Where the pull loop is after process_device has returned: the decoder
\* catches its own exceptions, so the loop goes on to the next advertisement.
AfterProcessDevice(adv) == "iter"

\* A decoder that writes its device_info into the device map itself instead
\* of emitting device_found.
ProcessDeviceWritesDevices(i) ==
  /\ variant = "pull"
  /\ ThreadAt(i, "process")
  /\ \E info \in DecodedInfos(threads[i].cur, Clock) :
       devices' = IF DecodeRaises(threads[i].cur) THEN devices ELSE PutDevice(devices, info)
  /\ threads' = [threads EXCEPT ![i].pc = "iter", ![i].cur = NoAdv]
  /\ UNCHANGED <<variant, details, scanner_thread, timer_pending, gui, queue, rows, sortVars,
                 advCount, emitted, lastOp>>

\* pull: "await self.process_device(device, advertisement_data)"
ProcessDevice(i) ==
  /\ variant = "pull"
  /\ ThreadAt(i, "process")
  /\ \E info \in DecodedInfos(threads[i].cur, Clock) :
       Emit(DecodedSignal(threads[i].cur), i, info)
  /\ threads' = [threads EXCEPT ![i].pc = AfterProcessDevice(threads[i].cur),
                                ![i].cur = NoAdv]
  /\ UNCHANGED <<variant, details, scanner_thread, timer_pending, gui, tableVars, sortVars,
                 advCount, lastOp>>

\* pull: leaving the "async with" block stops the scanner, which may raise.
ScannerExit(i) ==
  /\ variant = "pull"
  /\ ThreadAt(i, "exit")
  /\ \E pc \in {"finally", "except"} : threads' = [threads EXCEPT ![i].pc = pc]
  /\ UNCHANGED <<variant, details, scanner_thread, timer_pending, gui, queue, tableVars,
                 sortVars, advCount, emitted, lastOp>>

\* push: detection_callback runs on the session thread's event loop while
\* start_scanning is suspended in asyncio.sleep or in scanner.stop(); it does
\* not read is_scanning.
Callback(i, adv) ==
  /\ variant = "push"
  /\ i \in 1..Len(threads) /\ Alive
  /\ threads[i].pc \in {"poll", "finally"}
  /\ threads[i].scanner = "started"
  /\ advCount < MaxAdv
  /\ advCount' = advCount + 1
  /\ \E info \in DecodedInfos(adv, Clock') : Emit(DecodedSignal(adv), i, info)
  /\ UNCHANGED <<variant, details, threads, scanner_thread, timer_pending, gui, tableVars,
                 sortVars, lastOp>>

DetectionCallback(i) == \E adv \in Advertisements : Callback(i, adv)

\* push: "while self.is_scanning: await asyncio.sleep(0.1)" ends.
PollExit(i) ==
  /\ variant = "push"
  /\ ThreadAt(i, "poll")
  /\ ~threads[i].is_scanning
  /\ threads' = [threads EXCEPT ![i].pc = "finally"]
  /\ UNCHANGED <<variant, details, scanner_thread, timer_pending, gui, queue, tableVars,
                 sortVars, advCount, emitted, lastOp>>

\* An except clause that swallows the exception without emitting it.
ExceptSilent(i) ==
  /\ ThreadAt(i, "except")
  /\ threads' = [threads EXCEPT ![i].pc = "finally"]
  /\ UNCHANGED <<variant, details, scanner_thread, timer_pending, gui, queue, tableVars,
                 sortVars, advCount, emitted, lastOp>>

\* "except Exception as e: ... self.error_occurred.emit(...)"
Except(i) ==
  /\ ThreadAt(i, "except")
  /\ threads' = [threads EXCEPT ![i].pc = "finally"]
  /\ Emit("error_occurred", i, NoInfo)
  /\ UNCHANGED <<variant, details, scanner_thread, timer_pending, gui, tableVars, sortVars,
                 advCount, lastOp>>

\* A finally clause that emits scan_stopped without clearing is_scanning.
FinallyKeepsFlag(i) ==
  /\ ThreadAt(i, "finally")
  /\ threads' = [threads EXCEPT ![i].pc = "done",
                                ![i].scanner = IF @ = "started" THEN "stopped" ELSE @]
  /\ Emit("scan_stopped", i, NoInfo)
  /\ UNCHANGED <<variant, details, scanner_thread, timer_pending, gui, tableVars, sortVars,
                 advCount, lastOp>>

\* push: "if self.scanner: await self.scanner.stop()" in the finally clause
\* returns or raises; "except: pass" swallows what it raises. pull: the
\* finally clause has no statement that can raise.
StopRaises(i) ==
  IF variant = "push" /\ threads[i].scanner # "none" THEN {FALSE, TRUE} ELSE {FALSE}

\* "finally:" (push: "await self.scanner.stop()" with its exceptions
\* swallowed) "self.is_scanning = False; self.scan_stopped.emit()"; then
\* start_scanning and run() return.
Finally(i) ==
  /\ ThreadAt(i, "finally")
  /\ \E raised \in StopRaises(i) :
       threads' = [threads EXCEPT ![i].is_scanning = FALSE, ![i].pc = "done",
                                  ![i].scanner = IF @ = "started" THEN "stopped" ELSE @,
                                  ![i].stop_raised = raised]
  /\ Emit("scan_stopped", i, NoInfo)
  /\ UNCHANGED <<variant, details, scanner_thread, timer_pending, gui, tableVars, sortVars,
                 advCount, lastOp>>

\* The steps the session thread takes by itself.
ThreadRuns(i) ==
  \/ Begin(i)
  \/ ScannerStart(i)
  \/ ProcessDevice(i)
  \/ ScannerExit(i)
  \/ PollExit(i)
  \/ Except(i)
  \/ Finally(i)

\* The steps that take an advertisement from the host stack.
Advertised(i) ==
  \/ NextAdvertisement(i)
  \/ DetectionCallback(i)

(***************************************************************************)
(* Spec: the application, with the table's sort indicator as constructed.  *)
(***************************************************************************)
Next ==
  \/ TimerFires
  \/ ToggleScanning
  \/ WaitReturns
  \/ CloseEvent
  \/ AddDevice
  \/ OnSignal
  \/ ClearResults
  \/ ExportResults
  \/ \E i \in 1..MaxSessions : ThreadRuns(i)
  \/ \E i \in 1..MaxSessions : Advertised(i)

Spec == Init /\ [][Next]_vars


(***************************************************************************)
(* TableSpec: the consumer side alone. A session is scanning and has       *)
(* emitted a stream of device_found signals that the GUI thread has not    *)
(* handled yet; the GUI thread handles them while the user clears,         *)
(* exports and clicks header sections.                                     *)
(***************************************************************************)
\* Length of the stream of device_found signals.
MaxStream == 3

Streams == UNION {[1..n -> DeviceInfos] : n \in 0..MaxStream}

ScanningThread ==
  [pc |-> IF variant = "pull" THEN "iter" ELSE "poll", is_scanning |-> TRUE,
   scanner |-> "started", cur |-> NoAdv, stop_raised |-> FALSE]

TableInit ==
  /\ variant \in {"pull", "push"}
  /\ threads = <<ScanningThread>>
  /\ scanner_thread = 1
  /\ timer_pending = FALSE
  /\ gui = "idle"
  /\ \E stream \in Streams :
       /\ queue = [k \in 1..Len(stream) |-> Signal("device_found", 1, stream[k])]
       /\ advCount = Len(stream)
       /\ emitted = <<[NoSignals EXCEPT !.scan_started = 1, !.device_found = Len(stream)]>>
  /\ devices = ClearedDevices
  /\ rows = <<>>
  /\ sortCol = ColAddress
  /\ sortOrder = "desc"
  /\ lastOp = "scan_started"
  /\ details = NoDetails

TableNext ==
  \/ AddDevice
  \/ ClearResults
  \/ ExportResults
  \/ HeaderClicked

TableSpec == TableInit /\ [][TableNext]_vars

(***************************************************************************)
(* DecodeSpec: the decoder alone. A session is scanning and the host stack *)
(* has an advertisement for it, any of DecoderAdvertisements; the session  *)
(* decodes it (pull: process_device in the loop body; push: the            *)
(* detection_callback, once for each time the advertisement is heard).     *)
(***************************************************************************)
\* Length of the advertised service-UUID list.
MaxUuids == 2
\* Number of entries of the service-data dict.
MaxServiceData == 1

\* UUID strings: SIG-base UUIDs in lowercase, in uppercase and with digits
\* only, a 32-bit SIG-base UUID, a short UUID, and a 36-character string
\* with the SIG-base suffix that has six groups.
UuidLower == <<48, 48, 48, 48, 49, 56, 48, 102, 45, 48, 48, 48, 48, 45, 49, 48, 48, 48, 45, 56, 48, 48, 48, 45, 48, 48, 56, 48, 53, 102, 57, 98, 51, 52, 102, 98>>
UuidUpper == <<48, 48, 48, 48, 49, 56, 48, 70, 45, 48, 48, 48, 48, 45, 49, 48, 48, 48, 45, 56, 48, 48, 48, 45, 48, 48, 56, 48, 53, 70, 57, 66, 51, 52, 70, 66>>
UuidDigits == <<48, 48, 48, 48, 49, 56, 48, 48, 45, 48, 48, 48, 48, 45, 49, 48, 48, 48, 45, 56, 48, 48, 48, 45, 48, 48, 56, 48, 53, 102, 57, 98, 51, 52, 102, 98>>
Uuid32 == <<49, 50, 51, 52, 49, 56, 48, 102, 45, 48, 48, 48, 48, 45, 49, 48, 48, 48, 45, 56, 48, 48, 48, 45, 48, 48, 56, 48, 53, 102, 57, 98, 51, 52, 102, 98>>
UuidShort == <<102, 101, 97, 97>>
UuidSixGroups == <<48, 48, 48, 45, 49, 56, 48, 48, 45, 48, 48, 48, 48, 45, 49, 48, 48, 48, 45, 56, 48, 48, 48, 45, 48, 48, 56, 48, 53, 102, 57, 98, 51, 52, 102, 98>>
Uuids == {UuidLower, UuidUpper, UuidDigits, Uuid32, UuidShort, UuidSixGroups}

Payloads == {<<>>, <<10, 255>>}
CompanyIds == {0, 76, 39321, 65535}

SeqsUpTo(S, n) == UNION {[1..k -> S] : k \in 0..n}

ManufacturerDatas ==
  {<<>>} \cup {<<[id |-> c, data |-> <<1>>]>> : c \in CompanyIds}
         \cup {<<[id |-> 76, data |-> <<1>>], [id |-> 39321, data |-> <<>>]>>}

ServiceDatas ==
  {sd \in SeqsUpTo([uuid : Uuids, data : Payloads], MaxServiceData) :
     \A j, k \in 1..Len(sd) : j # k => sd[j].uuid # sd[k].uuid}

DecoderReadings == {-120, -100, -99, -98, -60}

DecoderRssiInputs ==
  {[kind |-> "int", val |-> v] : v \in DecoderReadings}
    \cup {[kind |-> "missing", val |-> 0], [kind |-> "none", val |-> 0]}

DecoderAdvertisements ==
  [address : {1}, rssi : DecoderRssiInputs, manufacturer_data : ManufacturerDatas,
   service_uuids : SeqsUpTo(Uuids, MaxUuids), service_data : ServiceDatas]

DecodeInit ==
  /\ variant \in {"pull", "push"}
  /\ \E adv \in DecoderAdvertisements :
       threads = <<[pc |-> IF variant = "pull" THEN "process" ELSE "poll",
                    is_scanning |-> TRUE, scanner |-> "started", cur |-> adv,
                    stop_raised |-> FALSE]>>
  /\ scanner_thread = 1
  /\ timer_pending = FALSE
  /\ gui = "idle"
  /\ queue = <<>>
  /\ advCount = 0
  /\ emitted = <<[NoSignals EXCEPT !.scan_started = 1]>>
  /\ devices = ClearedDevices
  /\ rows = <<>>
  /\ sortCol = ColAddress
  /\ sortOrder = "desc"
  /\ lastOp = "scan_started"
  /\ details = NoDetails

\* push: the host stack calls detection_callback with the advertisement.
Heard(i) ==
  /\ i \in 1..Len(threads)
  /\ threads[i].cur # NoAdv
  /\ Callback(i, threads[i].cur)

DecodeNext == \E i \in 1..MaxSessions : ProcessDevice(i) \/ Heard(i)

DecodeSpec == DecodeInit /\ [][DecodeNext]_vars

(***************************************************************************)
(* Properties of the device table.                                         *)
(***************************************************************************)
\* The step in which the GUI thread handles the device_found signal at the
\* head of the queue, that is, runs add_device on its device_info.
AddDeviceStep ==
  /\ queue # <<>>
  /\ Head(queue).sig = "device_found"
  /\ queue' = Tail(queue)

\* The items add_device sets in the row of a device_info.
ItemsOf(info) ==
  [c \in Cols |-> IF c = ColAddress THEN <<info.address>>
                  ELSE IF c = ColRssi THEN <<info.rssi>>
                  ELSE <<info.last_seen>>]

RowAddresses == {rows[r][ColAddress][1] : r \in {q \in 1..Len(rows) : rows[q][ColAddress] # Null}}

\* Every row has an address, no two rows share one, the addresses of the rows
\* are the keys of devices, each key holds a record of that address, and
\* the row count equals len(devices).
C5_OneRowPerAddress ==
  /\ \A r \in 1..Len(rows) : rows[r][ColAddress] # Null
  /\ \A r, q \in 1..Len(rows) : r # q => rows[r][ColAddress] # rows[q][ColAddress]
  /\ RowAddresses = DOMAIN devices
  /\ \A a \in DOMAIN devices : devices[a].address = a
  /\ Len(rows) = Cardinality(DOMAIN devices)

\* add_device adds exactly its address to the keys of devices.
C5_AddDeviceKeys ==
  AddDeviceStep =>
    DOMAIN devices' = DOMAIN devices \cup {Head(queue).info.address}

\* C5: after any sequence of add_device and clear_results calls there is
\* exactly one live record per address: devices holds one record per address
\* seen since the last clear, the table holds exactly one row per such
\* address, and the row count equals len(devices).
C5_OneRecordPerAddress == [](C5_OneRowPerAddress) /\ [][C5_AddDeviceKeys]_vars

\* Three device_found signals handled, the last for a new address, two rows:
\* an address was seen again, or the table was cleared in between.
C5_Witness ==
  /\ emitted[1].device_found = 3
  /\ queue = <<>>
  /\ lastOp = "add_device_new"
  /\ Len(rows) = 2

\* C6 as claimed: add_device for an address already in the table replaces
\* the fields of that address's row and record by the new values, keeps the
\* number of records and rows, keeps the row at its position and leaves
\* every other row unchanged.
C6_UpdateInPlace ==
  [][ (AddDeviceStep /\ ExistingRow(rows, Head(queue).info.address) # 0) =>
        LET info == Head(queue).info
            r == ExistingRow(rows, info.address)
        IN /\ Len(rows') = Len(rows)
           /\ rows'[r] = ItemsOf(info)
           /\ \A q \in 1..Len(rows) : q # r => rows'[q] = rows[q]
           /\ devices'[info.address] = info
           /\ DOMAIN devices' = DOMAIN devices ]_vars

\* C7 as claimed: add_device for an address not yet in the table puts the
\* new row at the end, grows the record and row counts by one and leaves
\* the position and content of every existing row unchanged.
C7_AppendAtEnd ==
  [][ (AddDeviceStep /\ ExistingRow(rows, Head(queue).info.address) = 0) =>
        LET info == Head(queue).info
        IN /\ Len(rows') = Len(rows) + 1
           /\ rows'[Len(rows) + 1] = ItemsOf(info)
           /\ \A q \in 1..Len(rows) : rows'[q] = rows[q]
           /\ Cardinality(DOMAIN devices') = Cardinality(DOMAIN devices) + 1 ]_vars

\* C8 as claimed: for every table state and every record, a second
\* add_device with identical content leaves the table as the first left it.
C8_Idempotent ==
  \A info \in DeviceInfos :
    LET once == AddDeviceRows(rows, info, sortCol, sortOrder)
        twice == AddDeviceRows(once, info, sortCol, sortOrder)
    IN /\ twice = once
       /\ PutDevice(PutDevice(devices, info), info) = PutDevice(devices, info)


(***************************************************************************)
(* FairSpec: the application with every session thread scheduled fairly    *)
(* and wait() returning once its thread has finished. Nothing is assumed   *)
(* of the host stack: no advertisement has to arrive.                      *)
(***************************************************************************)
FairSpec ==
  /\ Spec
  /\ \A i \in 1..MaxSessions : WF_vars(ThreadRuns(i))
  /\ WF_vars(WaitReturns)

(***************************************************************************)
(* Properties of the scan sessions.                                        *)
(***************************************************************************)
\* The session threads that are running, in a process that is alive.
Running == {i \in 1..Len(threads) : Alive /\ IsRunning(i)}

\* C1 as claimed: after any interleaving of the auto-start timer, the
\* toggle clicks, stop_scanning and session termination, there are never
\* two BLEScannerThread instances running at the same time.
C1_AtMostOneRunning == Cardinality(Running) <= 1

\* The GUI thread is inside stop_scanning, blocked in wait().
StopRequested == gui \in {"wait", "close_wait"}

\* C2 as claimed: a stop request on a running session is eventually
\* followed by the stopped state (the thread finished, wait() returned),
\* with the session thread scheduled fairly and no further advertisement
\* assumed.
C2_StopLeadsToStopped == StopRequested ~> ~StopRequested

\* The step in which session i's decoder (pull: process_device) fails.
PullDecodeFails(i) ==
  /\ variant = "pull"
  /\ threads[i].pc = "process"
  /\ DecodeRaises(threads[i].cur)
  /\ threads'[i].pc # "process"

\* The step in which session i's detection_callback runs (push).
PushCallbackRuns(i) ==
  /\ variant = "push"
  /\ queue' # queue
  /\ Len(queue') = Len(queue) + 1
  /\ queue'[Len(queue')].sess = i
  /\ queue'[Len(queue')].sig \in {"device_found", "error_occurred"}
  /\ threads[i].pc \in {"poll", "finally"}
  /\ threads'[i].pc = threads[i].pc

DecodeFails(i) ==
  \/ PullDecodeFails(i)
  \/ PushCallbackRuns(i) /\ queue'[Len(queue')].sig = "error_occurred"

\* Session i will take the next advertisement as it took this one.
StillScanning(i) ==
  /\ threads'[i].is_scanning = threads[i].is_scanning
  /\ threads'[i].scanner = threads[i].scanner
  /\ threads'[i].pc = IF variant = "pull" THEN "iter" ELSE threads[i].pc

\* What the step of a decode failure does: one error_occurred is queued and
\* nothing else, the device map and the table are as they were, and the
\* session is as ready for the next advertisement as it was for this one.
C3_DecodeFailureStep ==
  \A i \in 1..Len(threads) :
    DecodeFails(i) =>
      /\ queue' = Append(queue, Signal("error_occurred", i, NoInfo))
      /\ emitted'[i] = [emitted[i] EXCEPT !.error_occurred = @ + 1]
      /\ StillScanning(i)
      /\ UNCHANGED <<devices, rows, scanner_thread>>
      /\ Len(threads') = Len(threads)

\* C3: a decode failure for one advertisement never aborts the stream: the
\* step emits exactly one error_occurred and no device_found for it, changes
\* neither the device map nor the table, and leaves the session scanning, so
\* that every later advertisement is decoded and delivered as before.
C3_DecodeFailureSkipsOneEvent == [][C3_DecodeFailureStep]_vars

\* After a decode failure of a session, the same session has decoded and
\* delivered a later advertisement, and is still scanning.
C3_Witness ==
  \E i \in 1..Len(threads) : \E j, k \in 1..Len(queue) :
    /\ j < k
    /\ queue[j] = Signal("error_occurred", i, NoInfo)
    /\ queue[k].sig = "device_found" /\ queue[k].sess = i
    /\ threads[i].is_scanning
    /\ threads[i].pc \in {"iter", "poll"}

\* Session i could not create or start its scanner.
StartupFailed(i) ==
  /\ threads[i].scanner \in {"none", "created"}
  /\ threads[i].pc \in {"finally", "done"}

\* A session that failed at start-up has emitted one error_occurred and no
\* device_found; once finished it has emitted one scan_stopped and its
\* is_scanning is False.
C4_FailedSessionState ==
  \A i \in 1..Len(threads) :
    StartupFailed(i) =>
      /\ emitted[i].error_occurred = 1
      /\ emitted[i].device_found = 0
      /\ threads[i].pc = "done" =>
           /\ emitted[i].scan_stopped = 1
           /\ ~threads[i].is_scanning

\* A thread is created only by start_scanning, called by the timer armed at
\* construction or by the scan button, one thread per call.
C4_NoRestart ==
  Len(threads') # Len(threads) =>
    /\ TimerFires \/ ToggleScanning
    /\ lastOp' = "start_scanning"
    /\ Len(threads') = Len(threads) + 1

\* C4: a session whose scanner cannot be created or started emits exactly
\* one error_occurred and then stops (scan_stopped emitted, is_scanning
\* False); no step of a session or of a signal's slot starts a new session,
\* which begins only with a call of start_scanning by the application.
C4_SessionFailureStops == [](C4_FailedSessionState) /\ [][C4_NoRestart]_vars

\* A session has failed at start-up and has stopped; no session follows it.
C4_Witness ==
  \E i \in 1..Len(threads) :
    /\ StartupFailed(i)
    /\ threads[i].pc = "done"
    /\ Len(threads) = i
    /\ lastOp = "scan_stopped"

\* A step is clear_results, or keeps every address of devices with its
\* record, which only add_device for that address replaces.
C9_Step ==
  \/ ClearResults
  \/ \A a \in DOMAIN devices :
       /\ a \in DOMAIN devices'
       /\ devices'[a] = IF AddDeviceStep /\ Head(queue).info.address = a
                          THEN Head(queue).info ELSE devices[a]

\* C9: there is no automatic expiry: an address in devices stays there,
\* holding the record of its latest advertisement, through every operation
\* (add_device for any address, scan start, scan stop, session failure,
\* export) and is removed only by clear_results.
C9_NoExpiry == [][C9_Step]_vars

\* A record is still in devices after its session was stopped, a second
\* session was started and an export failed.
C9_Witness ==
  /\ DOMAIN devices # {}
  /\ Len(threads) = 2
  /\ threads[1].pc = "done"
  /\ lastOp = "export_failed"

\* C10: immediately after clear_results devices is empty and the table has
\* no rows, whatever the state it was called in.
C10_ClearEmpties ==
  lastOp = "clear_results" => devices = ClearedDevices /\ rows = <<>>

\* clear_results has just run while a session is scanning, after that
\* session's device_found signals were handled.
C10_Witness ==
  /\ lastOp = "clear_results"
  /\ \E i \in 1..Len(threads) :
       /\ threads[i].is_scanning
       /\ emitted[i].device_found >= 1
       /\ \A k \in 1..Len(queue) : queue[k].sig # "device_found"


(***************************************************************************)
(* Properties of the producer side.                                        *)
(***************************************************************************)
\* A step of the producer side: of a session thread, or of the host stack
\* delivering an advertisement to it.
ProducerStep == \E i \in 1..MaxSessions : ThreadRuns(i) \/ Advertised(i)

\* worker.stop_scanning(), called from the GUI thread by stop_scanning.
WorkerStopStep ==
  \E i \in 1..Len(threads) : threads[i].is_scanning /\ ~threads'[i].is_scanning
                               /\ threads'[i].pc = threads[i].pc

\* One signal has been appended to the queue.
QueueAppended ==
  Len(queue') = Len(queue) + 1 /\ SubSeq(queue', 1, Len(queue)) = queue

\* C11: the device table has a single mutator: devices and the table rows
\* change only in add_device and clear_results steps of the GUI thread; every
\* step of the producer side (start_scanning, the decoder, stop_scanning,
\* run) leaves both unchanged and only appends signals to the queue.
C11_SingleMutator ==
  [][ /\ (devices' # devices \/ rows' # rows) =>
           /\ ~(ProducerStep \/ WorkerStopStep)
           /\ AddDevice \/ ClearResults
      /\ (queue' # queue /\ ~QueueAppended) => ~ProducerStep ]_vars

\* A session has emitted a device_found that is still queued, for an address
\* the non-empty device map does not hold.
C11_Witness ==
  /\ DOMAIN devices # {}
  /\ Len(rows) = Cardinality(DOMAIN devices)
  /\ \E k \in 1..Len(queue) :
       /\ queue[k].sig = "device_found"
       /\ queue[k].info.address \notin DOMAIN devices


(***************************************************************************)
(* Properties of the decoder. In a step of DecodeSpec session 1 decodes    *)
(* the advertisement it holds and appends one signal to the queue.         *)
(***************************************************************************)
\* The advertisement decoded in this step and the signal emitted for it.
Decoding == Len(queue') = Len(queue) + 1
DecodedAdv == threads[1].cur
DecodedSig == queue'[Len(queue')]
RecordEmitted == Decoding /\ DecodedSig.sig = "device_found"

\* The entries of a "\n"-joined string.
Entries(str) == IF str = <<>> THEN {} ELSE Range(Split(str, 10))

\* The UUIDs an advertisement carries: its service-UUID list and the keys of
\* its service-data.
AdvertisedUuids(adv) ==
  Range(adv.service_uuids) \cup Range(ServiceDataKeys(adv.service_data))

\* The normalization the specification states: a 36-character string of five
\* hyphen-separated groups, the last four equal to the SIG base suffix
\* whatever the case of the hex digits, the first starting with "0000",
\* becomes the last four hex digits of the first group in uppercase; any
\* other string is unchanged.
IsSigBase16(u) ==
  /\ Len(u) = 36
  /\ Len(Split(u, 45)) = 5
  /\ Upper(SubSeq(u, 9, 36)) = Upper(SigBaseSuffix)
  /\ StartsWith(u, <<48, 48, 48, 48>>)

StatedNormalForm(u) == IF IsSigBase16(u) THEN Upper(SubSeq(u, 5, 8)) ELSE u

\* C12 as claimed: the decoder outputs, for every UUID of the service-UUID
\* list, the stated normal form (the last four hex digits of the first group
\* in uppercase for a SIG-base UUID, the string unchanged otherwise), and
\* every entry it outputs is the stated normal form of an advertised UUID.
C12_UuidNormalized ==
  [][ RecordEmitted =>
        LET out == Entries(DecodedSig.info.service_uuids)
        IN /\ \A u \in Range(DecodedAdv.service_uuids) : StatedNormalForm(u) \in out
           /\ \A e \in out : \E u \in AdvertisedUuids(DecodedAdv) : e = StatedNormalForm(u) ]_vars

\* C13 as claimed: the comparison with the SIG base suffix is
\* case-insensitive: 0000180F-0000-1000-8000-00805F9B34FB in the service-UUID
\* list is shortened as its lowercase spelling is, and listed as 180F.
C13_UppercaseShortened ==
  [][ (RecordEmitted /\ UuidUpper \in Range(DecodedAdv.service_uuids)) =>
        /\ <<49, 56, 48, 70>> \in Entries(DecodedSig.info.service_uuids)
        /\ UuidUpper \notin Entries(DecodedSig.info.service_uuids) ]_vars

\* C14 as claimed: service_uuids holds the normalized form (as the decoder
\* normalizes a UUID) of every UUID of the service-UUID list and of every
\* service-data key, and no other entry.
C14_NormalizedUnion ==
  [][ RecordEmitted =>
        Entries(DecodedSig.info.service_uuids)
          = {ConvertUuid(u) : u \in AdvertisedUuids(DecodedAdv)} ]_vars

\* The payloads service-data carries for the UUIDs whose normalized form is d.
PayloadsFor(adv, d) ==
  {adv.service_data[k].data :
     k \in {j \in 1..Len(adv.service_data) : ConvertUuid(adv.service_data[j].uuid) = d}}

\* C15 as claimed: raw_data['service_data'] has exactly one entry for each
\* UUID of the union, keyed by the normalized UUID; its value is the
\* uppercase hex of the payload when service-data carries one for the UUID,
\* and None when the UUID is only in the service-UUID list.
C15_ServiceDataMapping ==
  [][ RecordEmitted =>
        LET m == DecodedSig.info.raw_service_data
        IN /\ DOMAIN m = {ConvertUuid(u) : u \in AdvertisedUuids(DecodedAdv)}
           /\ \A d \in DOMAIN m :
                IF PayloadsFor(DecodedAdv, d) = {} THEN m[d] = Null
                ELSE \E data \in PayloadsFor(DecodedAdv, d) : m[d] = <<HexData(data)>> ]_vars

\* C16 as claimed: with non-empty manufacturer-data manufacturer_id is "0x"
\* and the 4-digit uppercase hex of its first key, for every company
\* identifier in 0..0xFFFF; it is empty exactly when manufacturer-data is.
C16_ManufacturerId ==
  [][ RecordEmitted =>
        LET md == DecodedAdv.manufacturer_data
            out == DecodedSig.info.manufacturer_id
        IN /\ md # <<>> => out = Format0x04X(md[1].id)
           /\ (out = <<>>) <=> (md = <<>>) ]_vars

\* C17: when the registry has no name for the first company identifier (the
\* lookup returns the sentinel "Unknown"), manufacturer is "0x" and the
\* 4-digit uppercase hex identifier (0x9999 gives "0x9999"); when it has one,
\* manufacturer is that name; without manufacturer-data it is empty.
C17_ManufacturerFallback ==
  [][ RecordEmitted =>
        LET md == DecodedAdv.manufacturer_data
            out == DecodedSig.info.manufacturer
        IN /\ md = <<>> => out = <<>>
           /\ (md # <<>> /\ md[1].id \notin DOMAIN Registry) =>
                /\ out = <<48, 120>> \o ZeroPad(FormatX(md[1].id), 4)
                /\ Len(out) = 6
                /\ md[1].id = 39321 => out = <<48, 120, 57, 57, 57, 57>>
                /\ md[1].id = 65535 => out = <<48, 120, 70, 70, 70, 70>>
                /\ md[1].id = 0 => out = <<48, 120, 48, 48, 48, 48>>
           /\ (md # <<>> /\ md[1].id \in DOMAIN Registry) => out = Registry[md[1].id] ]_vars

\* A record whose manufacturer is the fallback "0x9999" has been emitted.
C17_Witness ==
  \E k \in 1..Len(queue) :
    /\ queue[k].sig = "device_found"
    /\ queue[k].info.manufacturer = <<48, 120, 57, 57, 57, 57>>
    /\ queue[k].info.manufacturer_id = <<48, 120, 57, 57, 57, 57>>

\* C18: for every integer reading r, a reading below -99 is stored as -99
\* (-120 gives -99) and a reading of -99 or above is stored unchanged (-60
\* gives -60), and the advertisement is decoded to a record.
C18_RssiScenarios ==
  [][ (Decoding /\ DecodedAdv.rssi.kind = "int") =>
        LET r == DecodedAdv.rssi.val IN
        /\ DecodedSig.sig = "device_found"
        /\ r < -99 => DecodedSig.info.rssi = -99
        /\ r >= -99 => DecodedSig.info.rssi = r ]_vars

\* The reading -120 has been heard and a record with rssi -99 emitted for it.
C18_Witness ==
  /\ variant = "push"
  /\ threads[1].cur.rssi = [kind |-> "int", val |-> -120]
  /\ queue # <<>>
  /\ queue[1].sig = "device_found"
  /\ queue[1].info.rssi = -99

\* C19 as claimed: a numeric reading is clamped to a maximum of -99: for
\* every integer reading r the stored rssi is min(r, -99), so that no stored
\* real reading exceeds -99.
C19_ClampedToMaximum ==
  [][ (RecordEmitted /\ DecodedAdv.rssi.kind = "int") =>
        LET r == DecodedAdv.rssi.val IN
        /\ DecodedSig.info.rssi = IF r <= -99 THEN r ELSE -99
        /\ DecodedSig.info.rssi <= -99 ]_vars

\* C19 as amended: a numeric reading is clamped to a minimum of -99: for
\* every integer reading r the stored rssi is max(r, -99), so that no stored
\* real reading is below -99.
C19_ClampedToMinimum ==
  [][ (RecordEmitted /\ DecodedAdv.rssi.kind = "int") =>
        LET r == DecodedAdv.rssi.val IN
        /\ DecodedSig.info.rssi = IF r >= -99 THEN r ELSE -99
        /\ DecodedSig.info.rssi >= -99 ]_vars

\* The reading -100 has been heard twice and stored as -99 both times.
C19_Witness ==
  /\ variant = "push"
  /\ threads[1].cur.rssi = [kind |-> "int", val |-> -100]
  /\ Len(queue) = 2
  /\ \A k \in 1..2 : queue[k].sig = "device_found" /\ queue[k].info.rssi = -99

\* C20 as claimed: the decoder stores rssi = -999 exactly when no reading is
\* present: an advertisement without a reading (the value missing or empty)
\* is decoded to a record with rssi -999, not to a decode error, and an
\* advertisement with a numeric reading never yields -999.
C20_UnknownExactlyWhenAbsent ==
  [][ Decoding =>
        /\ DecodedAdv.rssi.kind \in {"missing", "none"} =>
             /\ DecodedSig.sig = "device_found"
             /\ DecodedSig.info.rssi = -999
        /\ (DecodedAdv.rssi.kind = "int" /\ DecodedSig.sig = "device_found") =>
             DecodedSig.info.rssi # -999 ]_vars

RECURSIVE RangeStep(_, _, _)
RangeStep(start, stop, step) ==
  IF start >= stop THEN <<>> ELSE <<start>> \o RangeStep(start + step, stop, step)

\* data_bytes[i:i+8]
Chunk(data, i) == SubSeq(data, i + 1, IF i + 8 <= Len(data) THEN i + 8 ELSE Len(data))

\* f"{byte:02X}" and f"{i:04X}"
Format02X(byte) == ZeroPad(FormatX(byte), 2)
Format04X(i) == ZeroPad(FormatX(i), 4)

\* A hex column that is not padded: a short final chunk gives a short row.
HexBytesUnpadded(chunk) == [j \in 1..Len(chunk) |-> Format02X(chunk[j])]

\* hex_bytes: one cell per byte of the chunk, then "  " cells while there
\* are fewer than 8.
HexBytes(chunk) ==
  [j \in 1..(IF Len(chunk) < 8 THEN 8 ELSE Len(chunk)) |->
     IF j <= Len(chunk) THEN Format02X(chunk[j]) ELSE <<32, 32>>]

\* ascii_chars: the byte itself when printable, else '.', then " " while
\* there are fewer than 8; ''.join(ascii_chars).
AsciiChars(chunk) ==
  [j \in 1..(IF Len(chunk) < 8 THEN 8 ELSE Len(chunk)) |->
     IF j <= Len(chunk)
       THEN (IF 32 <= chunk[j] /\ chunk[j] <= 126 THEN chunk[j] ELSE 46)
       ELSE 32]

\* line = f"{offset}: {hex_part}  |{ascii_part}|"
HexDumpLine(data, i) ==
  Format04X(i) \o <<58, 32>> \o Join(HexBytes(Chunk(data, i)), <<32>>)
    \o <<32, 32, 124>> \o AsciiChars(Chunk(data, i)) \o <<124>>

\* The lines appended after "Hex Dump:", one for each i of
\* range(0, len(data_bytes), 8).
HexDumpLines(data) ==
  LET offsets == RangeStep(0, Len(data), 8)
  IN [k \in 1..Len(offsets) |-> HexDumpLine(data, offsets[k])]

\* bytes.fromhex(data_hex)
HexValue(c) == IF c >= 97 THEN c - 87 ELSE IF c >= 65 THEN c - 55 ELSE c - 48

RECURSIVE FromHex(_)
FromHex(hex) ==
  IF Len(hex) < 2 THEN <<>>
  ELSE <<16 * HexValue(hex[1]) + HexValue(hex[2])>> \o FromHex(SubSeq(hex, 3, Len(hex)))

\* "(no data)", the line under "Hex Dump:" for a UUID whose data is None.
NoDataLine == <<40, 110, 111, 32, 100, 97, 116, 97, 41>>

\* update_manufacturer_details: nothing without manufacturer data, else the
\* hex dump of each entry's bytes, in the order of the dict.
ManufacturerDetails(info) ==
  LET md == info.raw_manufacturer_data
  IN [k \in 1..Len(md) |-> HexDumpLines(md[k].data)]

\* update_service_data_details: the panel is cleared without service data,
\* else for each UUID the hex dump of bytes.fromhex(data_hex), or
\* "(no data)" when data_hex is None.
ServiceDataDetails(info) ==
  LET sd == info.raw_service_data
  IN [u \in DOMAIN sd |->
        IF sd[u] = Null THEN <<NoDataLine>> ELSE HexDumpLines(FromHex(sd[u][1]))]

\* show_raw_data, the slot of the table's selection change: for the selected
\* row r, the panels are rewritten from self.devices[address].
ShowRawData ==
  /\ variant = "pull"
  /\ gui = "idle"
  /\ \E r \in 1..Len(rows) :
       /\ rows[r][ColAddress] # Null
       /\ rows[r][ColAddress][1] \in DOMAIN devices
       /\ LET info == devices[rows[r][ColAddress][1]]
          IN details' = [manufacturer |-> ManufacturerDetails(info),
                         service_data |-> ServiceDataDetails(info)]
  /\ lastOp' = "show_raw_data"
  /\ UNCHANGED <<variant, sessionVars, gui, queue, tableVars, sortVars>>

(***************************************************************************)
(* HexSpec: a device whose advertisement carried manufacturer data and     *)
(* service data of any length up to MaxBytes is in the table, and the user *)
(* selects its row.                                                        *)
(***************************************************************************)
\* Length of a manufacturer-data or service-data payload.
MaxBytes == 17

\* The payloads: for each length, bytes that step through 0..255 from one
\* of three first bytes, non-printable and printable ones.
PayloadStarts == {0, 48, 200}
PayloadBytes(len, first) == [j \in 1..len |-> (first + 37 * (j - 1)) % 256]
HexPayloads == {PayloadBytes(len, first) : len \in 0..MaxBytes, first \in PayloadStarts}

HexAdvertisements ==
  [address : {1}, rssi : {[kind |-> "int", val |-> -60]},
   manufacturer_data : {<<>>} \cup {<<[id |-> 76, data |-> p]>> : p \in HexPayloads},
   service_uuids : {<<>>},
   service_data : {<<>>} \cup {<<[uuid |-> UuidShort, data |-> p]>> : p \in HexPayloads}]

HexInit ==
  /\ variant = "pull"
  /\ \E adv \in HexAdvertisements :
       /\ threads = <<[pc |-> "iter", is_scanning |-> TRUE, scanner |-> "started",
                       cur |-> adv, stop_raised |-> FALSE]>>
       /\ \E info \in DecodedInfos(adv, 0) :
            /\ devices = PutDevice(ClearedDevices, info)
            /\ rows = AddDeviceRows(<<>>, info, ColAddress, "desc")
  /\ scanner_thread = 1
  /\ timer_pending = FALSE
  /\ gui = "idle"
  /\ queue = <<>>
  /\ advCount = 1
  /\ emitted = <<[NoSignals EXCEPT !.scan_started = 1, !.device_found = 1]>>
  /\ sortCol = ColAddress
  /\ sortOrder = "desc"
  /\ lastOp = "add_device_new"
  /\ details = NoDetails

HexNext == ShowRawData

HexSpec == HexInit /\ [][HexNext]_vars

(***************************************************************************)
(* Properties of the hex dump.                                             *)
(***************************************************************************)
\* The uppercase hex digits, and the four digits of an offset below 65536.
UpperHexDigits == <<48, 49, 50, 51, 52, 53, 54, 55, 56, 57, 65, 66, 67, 68, 69, 70>>
OffsetDigits(n) ==
  <<UpperHexDigits[((n \div 4096) % 16) + 1], UpperHexDigits[((n \div 256) % 16) + 1],
    UpperHexDigits[((n \div 16) % 16) + 1], UpperHexDigits[(n % 16) + 1]>>

\* Cell j (0..7) of a dump line: the two characters at 6 + 3j.
CellOf(line, j) == SubSeq(line, 7 + 3 * j, 8 + 3 * j)

\* The shape C22 states for the dump lines of the byte sequence data.
HexDumpShape(data, lines) ==
  LET L == Len(data) IN
  /\ Len(lines) = (L + 7) \div 8
  /\ L = 0 => lines = <<>>
  /\ \A k \in 0..(Len(lines) - 1) :
       LET line == lines[k + 1] IN
       /\ Len(line) >= 29
       /\ SubSeq(line, 1, 4) = OffsetDigits(8 * k)
       /\ SubSeq(line, 5, 6) = <<58, 32>>
       /\ \A j \in 0..7 :
            /\ 8 * k + j < L =>
                 CellOf(line, j) = <<UpperHexDigits[(data[8 * k + j + 1] \div 16) + 1],
                                     UpperHexDigits[(data[8 * k + j + 1] % 16) + 1]>>
            /\ 8 * k + j >= L => CellOf(line, j) = <<32, 32>>
            /\ j < 7 => line[9 + 3 * j] = 32
       /\ SubSeq(line, 30, 32) = <<32, 32, 124>>
       /\ (k = Len(lines) - 1 /\ L % 8 # 0) =>
            Cardinality({j \in 0..7 : CellOf(line, j) = <<32, 32>>}) = 8 - (L % 8)
       /\ (k < Len(lines) - 1 \/ L % 8 = 0) =>
            Cardinality({j \in 0..7 : CellOf(line, j) = <<32, 32>>}) = 0

\* C22: for every byte sequence of length L the hex dump has ceil(L/8) rows
\* (none for L = 0); row k starts with the 4-digit hex offset 8k and carries
\* bytes 8k..8k+7 in order as 2-digit uppercase hex; when L mod 8 is not 0
\* the last row has exactly 8 - (L mod 8) two-space placeholders, so that
\* every row has 8 hex cells. This holds for the manufacturer data panel and
\* for the service data panel.
C22_HexDumpShape ==
  [][ details' # details =>
        LET adv == threads[1].cur IN
        /\ Len(details'.manufacturer) = Len(adv.manufacturer_data)
        /\ \A k \in 1..Len(adv.manufacturer_data) :
             HexDumpShape(adv.manufacturer_data[k].data, details'.manufacturer[k])
        /\ adv.service_data # <<>> =>
             /\ DOMAIN details'.service_data = {ConvertUuid(adv.service_data[1].uuid)}
             /\ \A u \in DOMAIN details'.service_data :
                  HexDumpShape(adv.service_data[1].data, details'.service_data[u]) ]_vars

\* The panels show a 17-byte manufacturer payload in three rows, the last
\* with seven placeholders, and an 8-byte service payload in one full row.
C22_Witness ==
  /\ lastOp = "show_raw_data"
  /\ Len(threads[1].cur.manufacturer_data) = 1
  /\ Len(threads[1].cur.manufacturer_data[1].data) = 17
  /\ Len(details.manufacturer[1]) = 3
  /\ CellOf(details.manufacturer[1][3], 1) = <<32, 32>>
  /\ SubSeq(details.manufacturer[1][3], 1, 4) = <<48, 48, 49, 48>>
  /\ Len(threads[1].cur.service_data) = 1
  /\ Len(threads[1].cur.service_data[1].data) = 8
  /\ \A u \in DOMAIN details.service_data :
       /\ Len(details.service_data[u]) = 1
       /\ CellOf(details.service_data[u][1], 7) # <<32, 32>>

(***************************************************************************)
(* Properties of the export.                                               *)
(***************************************************************************)
\* The step in which an export request ends with its write failing: the
\* handler's one attempt has raised and its except clause has shown the
\* failure in a message box.
ExportFailedStep == lastOp # "export_failed" /\ lastOp' = "export_failed"

\* C23: when writing the export file fails, the failure is reported and the
\* handler returns without another attempt; devices, the table (rows and
\* sort indicator), the signals still queued and the scan sessions are
\* exactly as they were before the request.
C23_ExportFailureKeepsState ==
  [][ ExportFailedStep =>
        /\ DOMAIN devices # {}
        /\ devices' = devices
        /\ rows' = rows
        /\ UNCHANGED <<sortCol, sortOrder, queue, gui>>
        /\ UNCHANGED <<threads, scanner_thread, timer_pending, emitted, advCount>> ]_vars

\* An export has failed while a session was scanning, with a device in the
\* table and a device_found signal still queued.
C23_Witness ==
  /\ lastOp = "export_failed"
  /\ DOMAIN devices # {}
  /\ rows # <<>>
  /\ scanner_thread # 0
  /\ threads[scanner_thread].is_scanning
  /\ queue # <<>>
  /\ Head(queue).sig = "device_found"

(***************************************************************************)
(* Properties of cancellation.                                             *)
(***************************************************************************)
\* stop_scanning has been called on session i's worker: the GUI thread has
\* cleared its is_scanning and is waiting for the thread to finish.
StopRequestedOn(i) == StopRequested /\ scanner_thread = i

\* C24 as claimed: once a stop request has been made on a session and
\* stands (worker.stop_scanning has set is_scanning to False), the session
\* emits no further device_found, in the push variant as well as in the
\* pull variant.
C24_NoEmissionAfterStop ==
  [][ \A i \in 1..Len(threads) :
        (StopRequestedOn(i) /\ ~threads[i].is_scanning) =>
          emitted'[i].device_found = emitted[i].device_found ]_vars

\* C27 as claimed: a stop request is never lost: from the call of
\* stop_scanning on a session's worker, made at any point after the thread
\* was started, until the session has terminated, is_scanning is False.
C27_StopRequestNeverLost ==
  \A i \in 1..Len(threads) : StopRequestedOn(i) => ~threads[i].is_scanning

\* C29 as claimed: when closeEvent has accepted the close, every
\* BLEScannerThread the application started has finished.
C29_NoSessionRunsAfterClose ==
  gui = "closed" => \A i \in 1..Len(threads) : ~IsRunning(i)

(***************************************************************************)
(* Properties of the session's signals.                                    *)
(***************************************************************************)
\* Session i emits one error_occurred in this step.
ErrorEmitted(i) == emitted'[i].error_occurred = emitted[i].error_occurred + 1

\* C26 as claimed: no error is silently discarded: every exception raised
\* during a scan session results in an error_occurred signal queued to the
\* consumer: an exception at scanner start-up or (pull) at scanner exit
\* when the except clause of start_scanning is left, an exception of the
\* decoder in the step that decodes, and an exception of the scanner's
\* stop() in the step that shuts the scanner down.
C26_NoErrorDiscarded ==
  [][ \A i \in 1..Len(threads) :
        /\ (threads[i].pc = "except" /\ threads'[i].pc # "except") => ErrorEmitted(i)
        /\ DecodeFails(i) => ErrorEmitted(i)
        /\ (~threads[i].stop_raised /\ threads'[i].stop_raised) => ErrorEmitted(i) ]_vars

\* The step in which the GUI thread handles session i's scan_stopped
\* (on_scan_stopped).
ScanStoppedHandled(i) ==
  /\ queue # <<>>
  /\ Head(queue) = Signal("scan_stopped", i, NoInfo)
  /\ queue' = Tail(queue)

\* C25: queued events are drained before the stopped state: when the GUI
\* thread handles a session's scan_stopped, the session has finished and no
\* device_found of that session is still queued, and a finished session
\* emits nothing more; so add_device has run for every device_found the
\* session emitted before on_scan_stopped reports the device count.
C25_DrainedBeforeStopped ==
  [][ \A i \in 1..Len(threads) :
        /\ ScanStoppedHandled(i) =>
             /\ threads[i].pc = "done"
             /\ \A k \in 1..Len(queue) :
                  ~(queue[k].sig = "device_found" /\ queue[k].sess = i)
        /\ threads[i].pc = "done" => emitted'[i] = emitted[i] ]_vars

\* The GUI thread has handled the scan_stopped of a session that was stopped
\* by a request after it had emitted device_found twice; both records'
\* device is in the table.
C25_Witness ==
  /\ lastOp = "scan_stopped"
  /\ Len(threads) = 1
  /\ emitted[1].device_found = 2
  /\ emitted[1].error_occurred = 0
  /\ queue = <<>>
  /\ DOMAIN devices # {}
  /\ rows # <<>>

\* What session i has emitted, in a state.
SignalOrderState(i) ==
  LET n == emitted[i] IN
  /\ n.scan_started <= 1
  /\ n.scan_stopped <= 1
  /\ (n.device_found + n.error_occurred + n.scan_stopped > 0) => n.scan_started = 1
  /\ n.scan_stopped = 1 <=> threads[i].pc = "done"
  /\ n.scan_stopped = 1 => ~threads[i].is_scanning

\* What a step of session i may emit: nothing after scan_stopped, and
\* scan_stopped only with is_scanning False.
SignalOrderStep(i) ==
  /\ emitted[i].scan_stopped = 1 => emitted'[i] = emitted[i]
  /\ emitted'[i].scan_stopped > emitted[i].scan_stopped =>
       /\ ~threads'[i].is_scanning
       /\ queue' = Append(queue, Signal("scan_stopped", i, NoInfo))
  /\ emitted'[i].scan_started > emitted[i].scan_started =>
       /\ emitted[i] = NoSignals
       /\ queue' = Append(queue, Signal("scan_started", i, NoInfo))

\* C28: within one session scan_started is emitted exactly once and before
\* any device_found or error_occurred; scan_stopped is emitted exactly once,
\* when the session ends by a stop request or by a failure, and is the
\* session's last signal; is_scanning is False when scan_stopped is emitted.
C28_SignalOrder ==
  /\ [](\A i \in 1..Len(threads) : SignalOrderState(i))
  /\ [][\A i \in 1..Len(threads) : SignalOrderStep(i)]_vars

\* One session has ended by a failure at start-up and another by a stop
\* request after a device_found; each has emitted scan_started and
\* scan_stopped once.
C28_Witness ==
  /\ Len(threads) = 2
  /\ \A i \in 1..2 :
       /\ threads[i].pc = "done"
       /\ emitted[i].scan_started = 1
       /\ emitted[i].scan_stopped = 1
  /\ emitted[1].error_occurred = 1 /\ emitted[1].device_found = 0
  /\ threads[1].scanner = "none"
  /\ emitted[2].error_occurred = 0 /\ emitted[2].device_found = 1
  /\ threads[2].scanner = "stopped"

(***************************************************************************)
(* Properties of the displayed columns (push variant).                     *)
(***************************************************************************)
\* The uppercase hex digits of a byte sequence.
RECURSIVE StatedHex(_)
StatedHex(data) ==
  IF data = <<>> THEN <<>>
  ELSE <<UpperHexDigits[(Head(data) \div 16) + 1], UpperHexDigits[(Head(data) % 16) + 1]>>
         \o StatedHex(Tail(data))

\* The line of the service data column for the advertised UUID u.
StatedDataLine(adv, u) ==
  IF \E k \in 1..Len(adv.service_data) : adv.service_data[k].uuid = u
    THEN StatedHex(adv.service_data[
           CHOOSE k \in 1..Len(adv.service_data) : adv.service_data[k].uuid = u].data)
    ELSE <<110, 117, 108, 108>>

\* C30: in the push variant the two displayed columns stay aligned: for
\* every advertisement service_uuids and service_data have the same number
\* of lines, one for each advertised UUID, and line k of service_data is the
\* uppercase hex payload of the UUID shown on line k of service_uuids, or
\* "null" when that UUID has no service-data entry.
C30_ColumnsAligned ==
  [][ (variant = "push" /\ RecordEmitted) =>
        \E uuidLines \in {Split(DecodedSig.info.service_uuids, 10)} :
        \E dataLines \in {Split(DecodedSig.info.service_data, 10)} :
        \E all \in {AdvertisedUuids(DecodedAdv)} :
          IF all = {}
            THEN DecodedSig.info.service_uuids = <<>> /\ DecodedSig.info.service_data = <<>>
            ELSE /\ Len(uuidLines) = Len(dataLines)
                 /\ Len(uuidLines) = Cardinality(all)
                 /\ \A k \in 1..Len(uuidLines) : \E u \in all :
                      /\ uuidLines[k] = ConvertUuid(u)
                      /\ dataLines[k] = StatedDataLine(DecodedAdv, u)
                 /\ \A u \in all : \E k \in 1..Len(uuidLines) :
                      /\ uuidLines[k] = ConvertUuid(u)
                      /\ dataLines[k] = StatedDataLine(DecodedAdv, u) ]_vars

\* A push record with two lines in each column: one UUID with the payload
\* 0AFF and one UUID without service data, shown as "null".
C30_Witness ==
  /\ variant = "push"
  /\ queue # <<>>
  /\ queue[1].sig = "device_found"
  /\ Len(Split(queue[1].info.service_uuids, 10)) = 2
  /\ Range(Split(queue[1].info.service_data, 10)) = {<<48, 65, 70, 70>>, <<110, 117, 108, 108>>}

====
